---- MODULE Spec2Model ----
(***************************************************************************)
(* A model of mingo's evaluation core (core.ts): the operator registry     *)
(* (getOperator, useOperators, addOperators), computeValue, accumulate and *)
(* redact, with the $floor expression operator.                            *)
(*                                                                         *)
(* Strings are sequences of one-character strings, so that the name        *)
(* pattern, split('.'), substr and slice are computed character by         *)
(* character.                                                              *)
(***************************************************************************)
EXTENDS Integers, Sequences, FiniteSets, TLC

VARIABLES OPERATORS, pc, call, ret

vars == <<OPERATORS, pc, call, ret>>

(***************************************************************************)
(* Bounds of the model.                                                    *)
(***************************************************************************)
\* entries of the mapping a factory returns
MaxOps == 2
\* addOperators is called while fewer than this many operators are registered
MaxRegistered == 2

(***************************************************************************)
(* Characters and strings.                                                 *)
(***************************************************************************)
Lower == {"a","b","c","d","e","f","g","h","i","j","k","l","m",
          "n","o","p","q","r","s","t","u","v","w","x","y","z"}

Upper == {"A","B","C","D","E","F","G","H","I","J","K","L","M",
          "N","O","P","Q","R","S","T","U","V","W","X","Y","Z"}

Digit == {"0","1","2","3","4","5","6","7","8","9"}

\* the character class [a-zA-Z0-9_]
WordChar == Lower \cup Upper \cup Digit \cup {"_"}

\* /^\$[a-zA-Z0-9_]*$/.test(op)
NameRegexTest(op) ==
    /\ Len(op) >= 1
    /\ op[1] = "$"
    /\ \A i \in 2..Len(op) : op[i] \in WordChar

(***************************************************************************)
(* The operator registry.                                                  *)
(***************************************************************************)
OperatorType == {"accumulator", "expression", "pipeline", "projection", "query"}

NoOperators == [n \in {} |-> "none"]

\* const OPERATORS = {}; each(OperatorType, cls => OPERATORS[cls] = {})
InitOperators == [cls \in OperatorType |-> NoOperators]

\* has(obj, prop) on a mapping: an own property
has(obj, prop) == prop \in DOMAIN obj

\* getOperator(cls, operator): the function, or null
NullFn == [wrap |-> "null", fn |-> "null"]

getOperator(ops, cls, operator) ==
    IF has(ops[cls], operator) THEN ops[cls][operator] ELSE NullFn

\* Object.assign(OPERATORS[cls], operators): the new entries overwrite
useOperators(ops, cls, operators) ==
    [ops EXCEPT ![cls] = operators @@ ops[cls]]

\* a factory's mapping is a sequence of entries [k |-> name, v |-> fn] in
\* property order, the names distinct
DistinctKeys(entries) ==
    \A i, j \in 1..Len(entries) : entries[i].k = entries[j].k => i = j

\* a check of the names that forgets the registered ones
RECURSIVE CheckNamesPatternOnly(_, _, _, _)
CheckNamesPatternOnly(ops, cls, entries, i) ==
    IF i > Len(entries) THEN "none"
    ELSE IF ~NameRegexTest(entries[i].k) THEN "InvalidOperatorName"
    ELSE CheckNamesPatternOnly(ops, cls, entries, i + 1)

\* each(newOperators, (_, op) => { assert(regex.test(op)); assert(!getOperator(cls, op)) })
\* the error of the first assertion that fails, from entry i on
RECURSIVE CheckNames(_, _, _, _)
CheckNames(ops, cls, entries, i) ==
    IF i > Len(entries) THEN "none"
    ELSE IF ~NameRegexTest(entries[i].k) THEN "InvalidOperatorName"
    ELSE IF getOperator(ops, cls, entries[i].k) # NullFn THEN "DuplicateOperator"
    ELSE CheckNames(ops, cls, entries, i + 1)

\* switch (cls): the calling convention the wrapper of fn gives it
WrapOf(cls) ==
    CASE cls = "query" -> "query"
      [] cls = "projection" -> "projection"
      [] OTHER -> "default"

\* wrapped[op] for every op of newOperators
Wrapped(cls, entries) ==
    [n \in {entries[i].k : i \in 1..Len(entries)} |->
        LET i == CHOOSE j \in 1..Len(entries) : entries[j].k = n
        IN  [wrap |-> WrapOf(cls), fn |-> entries[i].v]]

\* a registration that checks and registers one name at a time
RECURSIVE addOperatorsOneByOne(_, _, _)
addOperatorsOneByOne(ops, cls, entries) ==
    IF entries = <<>> THEN [err |-> "none", ops |-> ops]
    ELSE LET err == CheckNames(ops, cls, <<Head(entries)>>, 1)
         IN  IF err # "none" THEN [err |-> err, ops |-> ops]
             ELSE addOperatorsOneByOne(useOperators(ops, cls, Wrapped(cls, <<Head(entries)>>)),
                                       cls, Tail(entries))

\* addOperators(cls, operatorFn), entries the mapping operatorFn returns
addOperators(ops, cls, entries) ==
    LET err == CheckNames(ops, cls, entries, 1)
    IN  IF err # "none"
        THEN [err |-> err, ops |-> ops]
        ELSE [err |-> "none", ops |-> useOperators(ops, cls, Wrapped(cls, entries))]

(***************************************************************************)
(* Values.  A scalar is a tagged record; an array or an object lives in    *)
(* the heap and is referred to by its identity, so that mutation in place  *)
(* and "the document itself" mean what they mean in the code.  Literals    *)
(* (expressions, the documents a call is given) are trees of the same      *)
(* records, with arrays and objects nested by value.                       *)
(***************************************************************************)
Undef == [t |-> "undef"]

Null == [t |-> "null"]

NaN == [t |-> "nan"]

\* the number n, or n + 0.5 when half
Num(n) == [t |-> "num", n |-> n, half |-> FALSE]

NumHalf(n) == [t |-> "num", n |-> n, half |-> TRUE]

Str(s) == [t |-> "str", s |-> s]

Ref(i) == [t |-> "ref", id |-> i]

\* literals: an array of literals, an object of entries [k |-> key, v |-> literal]
Arr(es) == [t |-> "arr", e |-> es]

Obj(es) == [t |-> "obj", e |-> es]

KV(k, v) == [k |-> k, v |-> v]

isString(v) == v.t = "str"

isNil(v) == v.t \in {"null", "undef"}

isNumber(v) == v.t \in {"num", "nan"}

\* on values, h the heap
isArray(h, v) == v.t = "ref" /\ h[v.id].t = "arr"

isObject(h, v) == v.t = "ref" /\ h[v.id].t = "obj"

\* v === Object(v)
isObjectLike(h, v) == v.t = "ref"

\* on literals
isArrayLit(x) == x.t = "arr"

isObjectLit(x) == x.t = "obj"

\* keys(obj) of entries
keys(es) == [i \in 1..Len(es) |-> es[i].k]

hasKey(es, k) == \E i \in 1..Len(es) : es[i].k = k

getKey(es, k) ==
    IF hasKey(es, k) THEN es[CHOOSE i \in 1..Len(es) : es[i].k = k].v ELSE Undef

\* obj[k] = v: an existing key keeps its place, a new one goes last
setKey(es, k, v) ==
    IF hasKey(es, k)
    THEN [i \in 1..Len(es) |-> IF es[i].k = k THEN KV(k, v) ELSE es[i]]
    ELSE Append(es, KV(k, v))

\* delete obj[k]
deleteKey(es, k) == SelectSeq(es, LAMBDA kv : kv.k # k)

\* a condition of ?: or ||
truthy(v) ==
    CASE v.t \in {"undef", "null", "nan"} -> FALSE
      [] v.t = "num" -> ~(v.n = 0 /\ ~v.half)
      [] v.t = "str" -> v.s # <<>>
      [] OTHER -> TRUE

(***************************************************************************)
(* The heap: a sequence of cells, a cell the array or object of that       *)
(* identity.                                                               *)
(***************************************************************************)
\* is literal x an array or a mapping
isComposite(x) == x.t \in {"arr", "obj"}

\* the i-th element of an array literal, the i-th value of a mapping literal
child(x, i) == IF x.t = "arr" THEN x.e[i] ELSE x.e[i].v

\* the paths (of positions) to the arrays and mappings within literal x
RECURSIVE Paths(_)
Paths(x) ==
    IF ~isComposite(x) THEN {}
    ELSE {<<>>} \cup UNION { {<<i>> \o p : p \in Paths(child(x, i))} : i \in 1..Len(x.e) }

\* the literal at path p within x
RECURSIVE At(_, _)
At(x, p) == IF p = <<>> THEN x ELSE At(child(x, Head(p)), Tail(p))

\* p comes before q when a literal is built: a parent before what it holds,
\* an element before the elements after it
Before(p, q) ==
    /\ p # q
    /\ \/ Len(p) < Len(q) /\ SubSeq(q, 1, Len(p)) = p
       \/ \E k \in 1..Len(p) :
             /\ k <= Len(q)
             /\ p[k] < q[k]
             /\ SubSeq(p, 1, k - 1) = SubSeq(q, 1, k - 1)

\* the place, among the paths ps, of path p
Rank(ps, p) == Cardinality({q \in ps : Before(q, p)}) + 1

\* what a cell holds for literal c at path p: a scalar itself, an array or a
\* mapping by its identity
placed(ps, base, c, p) == IF isComposite(c) THEN Ref(base + Rank(ps, p)) ELSE c

\* the cell for the array or mapping n at path p
cellOf(ps, base, n, p) ==
    [t |-> n.t,
     e |-> [i \in 1..Len(n.e) |->
              IF n.t = "arr"
              THEN placed(ps, base, n.e[i], Append(p, i))
              ELSE KV(n.e[i].k, placed(ps, base, n.e[i].v, Append(p, i)))]]

\* the cells of literal x, whose paths are ps, after base cells
cells(x, ps, base) ==
    [k \in 1..Cardinality(ps) |->
       cellOf(ps, base, At(x, CHOOSE p \in ps : Rank(ps, p) = k),
              CHOOSE p \in ps : Rank(ps, p) = k)]

\* the heap with literal x built in it, and the value of x
Alloc(h, x) ==
    IF isComposite(x)
    THEN [h |-> h \o cells(x, Paths(x), Len(h)), v |-> Ref(Len(h) + 1)]
    ELSE [h |-> h, v |-> x]

\* the literal a value stands for in heap h
RECURSIVE Snapshot(_, _)
Snapshot(h, v) ==
    IF v.t # "ref" THEN v
    ELSE IF h[v.id].t = "arr"
    THEN Arr([i \in 1..Len(h[v.id].e) |-> Snapshot(h, h[v.id].e[i])])
    ELSE Obj([i \in 1..Len(h[v.id].e) |->
                KV(h[v.id].e[i].k, Snapshot(h, h[v.id].e[i].v))])

(***************************************************************************)
(* Strings and field paths.                                                *)
(***************************************************************************)
\* s.split('.'): the pieces between the dots of s
Dots(s) == {i \in 1..Len(s) : s[i] = "."}

\* the position of the k-th dot of s; 0 and Len(s) + 1 bound the string
DotAt(s, k) ==
    IF k = 0 THEN 0
    ELSE IF k > Cardinality(Dots(s)) THEN Len(s) + 1
    ELSE CHOOSE i \in Dots(s) : Cardinality({j \in Dots(s) : j < i}) = k - 1

split(s) ==
    [k \in 1..(Cardinality(Dots(s)) + 1) |->
       SubSeq(s, DotAt(s, k - 1) + 1, DotAt(s, k) - 1)]

\* s.substr(n), s.slice(n)
substr(s, n) == SubSeq(s, n + 1, Len(s))

slice(s, n) == SubSeq(s, n + 1, Len(s))

\* resolve(obj, selector): the value at the dotted path through nested
\* objects, undefined where the path leaves them; a scalar obj resolves to
\* itself.  (Paths through arrays are not modelled: no input takes one.)
RECURSIVE resolvePath(_, _, _, _)
resolvePath(h, v, path, i) ==
    IF i > Len(path) \/ v.t = "undef" THEN v
    ELSE IF ~isObject(h, v) THEN Undef
    ELSE resolvePath(h, getKey(h[v.id].e, path[i]), path, i + 1)

resolve(h, obj, selector) ==
    IF obj.t # "ref" THEN obj ELSE resolvePath(h, obj, split(selector), 1)

(***************************************************************************)
(* Options, and the two tables of variables.                               *)
(***************************************************************************)
\* createConfig(): { idKey: '_id' }
createConfig == [t |-> "config", idKey |-> <<"_","i","d">>]

\* options left undefined by the caller
NoOptions == [given |-> FALSE, config |-> Undef, hasRoot |-> FALSE, root |-> Undef]

\* an options object with the given config and no root
OptionsOf(config) == [given |-> TRUE, config |-> config, hasRoot |-> FALSE, root |-> Undef]

\* options = options || { config: null }; options.config = options.config || createConfig()
defaulted(options) ==
    [given |-> TRUE,
     config |-> IF options.given /\ truthy(options.config) THEN options.config ELSE createConfig,
     hasRoot |-> options.hasRoot,
     root |-> options.root]

\* Object.assign(options, { root: obj }): obj overrides the root options holds
assignRootOverwrite(obj, options) ==
    [given |-> TRUE, config |-> options.config, hasRoot |-> TRUE, root |-> obj]

\* Object.assign({ root: obj }, options): a root that options holds overrides obj
assignRoot(obj, options) ==
    [given |-> TRUE,
     config |-> options.config,
     hasRoot |-> TRUE,
     root |-> IF options.hasRoot THEN options.root ELSE obj]

ROOT == <<"$","$","R","O","O","T">>

CURRENT == <<"$","$","C","U","R","R","E","N","T">>

REMOVE == <<"$","$","R","E","M","O","V","E">>

KEEP == <<"$","$","K","E","E","P">>

PRUNE == <<"$","$","P","R","U","N","E">>

DESCEND == <<"$","$","D","E","S","C","E","N","D">>

COND == <<"$","c","o","n","d">>

systemVariableNames == {ROOT, CURRENT, REMOVE}

redactVariableNames == {KEEP, PRUNE, DESCEND}

\* systemVariables[name](obj, expr, options)
systemVariables(name, obj, options) ==
    CASE name = ROOT -> options.root
      [] name = CURRENT -> obj
      [] OTHER -> Undef

\* String(null), the property key a null operator name is looked up under
NullKey == <<"n","u","l","l">>

\* the property key a value is looked up under: a string is its own key, an
\* array of one element has the key of that element; no other key of a
\* value of the model is a name of a table (<<>> stands for them)
RECURSIVE PropertyKey(_, _)
PropertyKey(h, v) ==
    CASE v.t = "str" -> v.s
      [] isArray(h, v) /\ Len(h[v.id].e) = 1 -> PropertyKey(h, h[v.id].e[1])
      [] OTHER -> <<>>

(***************************************************************************)
(* Evaluation threads a state st = [h, err, log]: the heap, the error      *)
(* thrown ("none" while none is) and the log of what was invoked.  Every   *)
(* function returns [st, v]; once an error is thrown nothing more runs.    *)
(***************************************************************************)
StartState(h) == [h |-> h, err |-> "none", log |-> <<>>]

Ok(st) == st.err = "none"

R(st, v) == [st |-> st, v |-> v]

\* assert(false, message): throws
Throw(st, e) == R([st EXCEPT !.err = e], Undef)

Logged(st, ev) == [st EXCEPT !.log = Append(@, ev)]

\* a new array or object holding es
New(st, t, es) ==
    R([st EXCEPT !.h = Append(@, [t |-> t, e |-> es])], Ref(Len(st.h) + 1))

RECURSIVE computeValue(_, _, _, _, _, _)
RECURSIVE computeItems(_, _, _, _, _, _, _)
RECURSIVE computeEntries(_, _, _, _, _, _, _)
RECURSIVE accumulate(_, _, _, _, _, _)
RECURSIVE accumulateEntries(_, _, _, _, _, _, _)
RECURSIVE redact(_, _, _, _, _)
RECURSIVE descendFields(_, _, _, _, _, _, _)
RECURSIVE descendItems(_, _, _, _, _, _, _, _)
RECURSIVE Invoke(_, _, _, _, _, _)
RECURSIVE pushItems(_, _, _, _, _, _, _)

(***************************************************************************)
(* computeValue(obj, expr, operator, options)                              *)
(*                                                                         *)
(* Where the code goes on with the result of a call, the model hands the   *)
(* result r to a definition of its own (computeItemsNext for computeItems, *)
(* and so on), which goes on only if nothing was thrown.                   *)
(***************************************************************************)
\* is expr a string that starts with '$'
isVariable(expr) == isString(expr) /\ Len(expr.s) > 0 /\ expr.s[1] = "$"

\* the branch for a string that starts with '$'
computeVariable(st, obj, expr, options) ==
    CASE has([n \in redactVariableNames |-> TRUE], expr.s) -> R(st, expr)
      [] expr.s \notin redactVariableNames /\ split(expr.s)[1] \notin systemVariableNames ->
           R(st, resolve(st.h, obj, slice(expr.s, 1)))
      [] OTHER ->
           LET arr == split(expr.s)
               v == systemVariables(arr[1], obj, assignRoot(obj, options))
               st1 == Logged(st, [ev |-> "sysvar", name |-> arr[1], obj |-> obj, v |-> v])
           IN  IF Len(arr) = 1 THEN R(st1, v)
               ELSE R(st1, resolve(st.h, v, slice(substr(expr.s, Len(arr[1])), 1)))

\* the single-operator rule of a mapping: is key an operator name
isOperatorKey(ops, key) ==
    \E c \in {"expression", "accumulator"} : has(ops[c], key)

\* an operator name is looked up among the accumulators first
dispatchAccumulatorFirst(ops, operator) ==
    IF getOperator(ops, "accumulator", operator) # NullFn THEN "accumulator"
    ELSE IF getOperator(ops, "expression", operator) # NullFn THEN "expression"
    ELSE "none"

\* the category computeValue takes operator from: EXPRESSION, else ACCUMULATOR
dispatch(ops, operator) ==
    IF getOperator(ops, "expression", operator) # NullFn THEN "expression"
    ELSE IF getOperator(ops, "accumulator", operator) # NullFn THEN "accumulator"
    ELSE "none"

\* the accumulator branch, r the expression fully resolved
computeAccumulator(ops, r, operator, options) ==
    CASE r.st.err # "none" -> r
      [] Ok(r.st) /\ ~isArray(r.st.h, r.v) -> Throw(r.st, "TypeError")
      [] OTHER ->
           Invoke(ops, Logged(r.st, [ev |-> "op", cls |-> "accumulator", name |-> operator,
                                     obj |-> r.v, expr |-> Null]),
                  getOperator(ops, "accumulator", operator), r.v, Null, options)

computeValue(ops, st, obj, expr, operator, options0) ==
    LET options == defaulted(options0)
        category == dispatch(ops, operator)
    IN  CASE category = "expression" ->
               Invoke(ops, Logged(st, [ev |-> "op", cls |-> "expression", name |-> operator,
                                       obj |-> obj, expr |-> expr]),
                      getOperator(ops, "expression", operator), obj, expr, options)
          [] category = "accumulator" ->
               computeAccumulator(ops, computeValue(ops, st, obj, expr, NullKey, options),
                                  operator, options)
          [] category = "none" /\ isVariable(expr) -> computeVariable(st, obj, expr, options)
          [] category = "none" /\ isArrayLit(expr) ->
               computeItems(ops, st, obj, expr.e, 1, options, <<>>)
          [] category = "none" /\ isObjectLit(expr) ->
               computeEntries(ops, st, obj, expr.e, 1, options, <<>>)
          [] OTHER -> R(st, expr)

\* the item computed, the items after it
computeItemsNext(ops, r, obj, items, i, options, acc) ==
    IF r.st.err # "none" THEN r
    ELSE computeItems(ops, r.st, obj, items, i + 1, options, Append(acc, r.v))

\* expr.map(item => computeValue(obj, item, null, options))
computeItems(ops, st, obj, items, i, options, acc) ==
    IF i > Len(items) THEN New(st, "arr", acc)
    ELSE computeItemsNext(ops, computeValue(ops, st, obj, items[i], NullKey, options),
                          obj, items, i, options, acc)

\* the body of the callback without the assertion on the number of keys
computeEntriesNextUnchecked(ops, r, obj, es, i, options, result) ==
    CASE r.st.err # "none" -> r
      [] Ok(r.st) /\ isOperatorKey(ops, es[i].k) -> r
      [] OTHER -> computeEntries(ops, r.st, obj, es, i + 1, options,
                                 setKey(result, es[i].k, r.v))

\* the body of the callback once result[key] = r is computed
computeEntriesNext(ops, r, obj, es, i, options, result) ==
    CASE r.st.err # "none" -> r
      [] Ok(r.st) /\ isOperatorKey(ops, es[i].k) /\ Len(es) # 1 ->
           Throw(r.st, "InvalidExpression")
      [] Ok(r.st) /\ isOperatorKey(ops, es[i].k) /\ Len(es) = 1 -> r
      [] OTHER -> computeEntries(ops, r.st, obj, es, i + 1, options,
                                 setKey(result, es[i].k, r.v))

\* each(expr, (val, key) => { ... }) over the entries of a mapping
computeEntries(ops, st, obj, es, i, options, result) ==
    IF i > Len(es) THEN New(st, "obj", result)
    ELSE computeEntriesNext(ops, computeValue(ops, st, obj, es[i].v, es[i].k, options),
                            obj, es, i, options, result)

(***************************************************************************)
(* accumulate(collection, field, expr, options)                            *)
(***************************************************************************)
accumulate(ops, st, collection, field, expr, options) ==
    CASE getOperator(ops, "accumulator", field) # NullFn ->
           Invoke(ops, Logged(st, [ev |-> "op", cls |-> "accumulator", name |-> field,
                                   obj |-> collection, expr |-> expr]),
                  getOperator(ops, "accumulator", field), collection, expr, options)
      [] getOperator(ops, "accumulator", field) = NullFn /\ isObjectLit(expr) ->
           accumulateEntries(ops, st, collection, expr.e, 1, options, <<>>)
      [] OTHER -> R(st, Undef)

\* the body of the callback without the assertion on the number of keys
accumulateEntriesNextUnchecked(ops, r, collection, es, i, options, result) ==
    CASE r.st.err # "none" -> r
      [] Ok(r.st) /\ getOperator(ops, "accumulator", es[i].k) # NullFn -> r
      [] OTHER -> accumulateEntries(ops, r.st, collection, es, i + 1, options,
                                    setKey(result, es[i].k, r.v))

\* the body of the callback once result[key] = r is computed
accumulateEntriesNext(ops, r, collection, es, i, options, result) ==
    CASE r.st.err # "none" -> r
      [] Ok(r.st) /\ getOperator(ops, "accumulator", es[i].k) # NullFn /\ Len(es) # 1 ->
           Throw(r.st, "InvalidGroupExpression")
      [] Ok(r.st) /\ getOperator(ops, "accumulator", es[i].k) # NullFn /\ Len(es) = 1 -> r
      [] OTHER -> accumulateEntries(ops, r.st, collection, es, i + 1, options,
                                    setKey(result, es[i].k, r.v))

\* each(expr, (val, key) => { ... }) over the entries of a group mapping
accumulateEntries(ops, st, collection, es, i, options, result) ==
    IF i > Len(es) THEN New(st, "obj", result)
    ELSE accumulateEntriesNext(ops, accumulate(ops, st, collection, es[i].k, es[i].v, options),
                               collection, es, i, options, result)

(***************************************************************************)
(* redact(obj, expr, options) and the redact variables                     *)
(***************************************************************************)
\* redact variables whose $$DESCEND descends whatever expr is
redactVariablesDescendAlways(ops, st, name, obj, expr, options) ==
    CASE name = KEEP -> R(st, obj)
      [] name = PRUNE -> R(st, Undef)
      [] name = DESCEND ->
           descendFields(ops, st, obj, expr, options, keys(st.h[obj.id].e), 1)

\* redact variables whose $$PRUNE returns the document
redactVariablesPruneKeeps(ops, st, name, obj, expr, options) ==
    CASE name = KEEP -> R(st, obj)
      [] name = PRUNE -> R(st, obj)
      [] name = DESCEND /\ ~(isObjectLit(expr) /\ hasKey(expr.e, COND)) -> R(st, obj)
      [] name = DESCEND /\ isObjectLit(expr) /\ hasKey(expr.e, COND) ->
           descendFields(ops, st, obj, expr, options, keys(st.h[obj.id].e), 1)

\* redactVariables[name](obj, expr, options)
redactVariables(ops, st, name, obj, expr, options) ==
    CASE name = KEEP -> R(st, obj)
      [] name = PRUNE -> R(st, Undef)
      [] name = DESCEND /\ ~(isObjectLit(expr) /\ hasKey(expr.e, COND)) -> R(st, obj)
      [] name = DESCEND /\ isObjectLit(expr) /\ hasKey(expr.e, COND) ->
           descendFields(ops, st, obj, expr, options, keys(st.h[obj.id].e), 1)

\* has(redactVariables, result) ? redactVariables[result](obj, expr, opts) : result
redactResult(ops, r, obj, expr, opts) ==
    IF r.st.err = "none" /\ PropertyKey(r.st.h, r.v) \in redactVariableNames
    THEN redactVariables(ops, Logged(r.st, [ev |-> "handler",
                                            name |-> PropertyKey(r.st.h, r.v),
                                            obj |-> obj, root |-> opts.root]),
                         PropertyKey(r.st.h, r.v), obj, expr, opts)
    ELSE r

\* computeValue has set the config of an options object it was given
redact(ops, st, obj, expr, options) ==
    redactResult(ops,
                 computeValue(ops, Logged(st, [ev |-> "redact", obj |-> obj]),
                              obj, expr, NullKey, options),
                 obj, expr,
                 assignRoot(obj, IF options.given THEN defaulted(options) ELSE options))

\* delete obj[key] for a null or undefined result r, else obj[key] = result
descendFieldsNext(ops, r, obj, expr, options, ks, i) ==
    IF r.st.err # "none" THEN r
    ELSE descendFields(ops,
                       [r.st EXCEPT !.h[obj.id].e = IF isNil(r.v) THEN deleteKey(@, ks[i])
                                                    ELSE setKey(@, ks[i], r.v)],
                       obj, expr, options, ks, i + 1)

\* each(obj, (current, key) => { ... }) of $$DESCEND, ks the keys of obj
descendFields(ops, st, obj, expr, options, ks, i) ==
    CASE i > Len(ks) -> R(st, obj)
      [] i <= Len(ks) /\ ~isObjectLike(st.h, getKey(st.h[obj.id].e, ks[i])) ->
           descendFields(ops, st, obj, expr, options, ks, i + 1)
      [] i <= Len(ks) /\ isArray(st.h, getKey(st.h[obj.id].e, ks[i])) ->
           descendFieldsNext(ops,
                             descendItems(ops, st, getKey(st.h[obj.id].e, ks[i]), expr, options,
                                          Len(st.h[getKey(st.h[obj.id].e, ks[i]).id].e), 1, <<>>),
                             obj, expr, options, ks, i)
      [] OTHER ->
           descendFieldsNext(ops, redact(ops, st, getKey(st.h[obj.id].e, ks[i]), expr, options),
                             obj, expr, options, ks, i)

\* the element redacted, pushed whether or not it is null
descendItemsNextKeepNull(ops, r, current, expr, options, len, j, result) ==
    IF r.st.err # "none" THEN r
    ELSE descendItems(ops, r.st, current, expr, options, len, j + 1,
                      IF r.v.t # "undef" THEN Append(result, r.v) ELSE result)

\* if (!isNil(elem)) result.push(elem)
descendItemsNext(ops, r, current, expr, options, len, j, result) ==
    IF r.st.err # "none" THEN r
    ELSE descendItems(ops, r.st, current, expr, options, len, j + 1,
                      IF ~isNil(r.v) THEN Append(result, r.v) ELSE result)

\* result = []; each(current, elem => { ... }) over the len elements of current
descendItems(ops, st, current, expr, options, len, j, result) ==
    CASE j > len -> New(st, "arr", result)
      [] j <= len /\ isObject(st.h, st.h[current.id].e[j]) ->
           descendItemsNext(ops, redact(ops, st, st.h[current.id].e[j], expr, options),
                            current, expr, options, len, j, result)
      [] OTHER ->
           descendItemsNext(ops, R(st, st.h[current.id].e[j]),
                            current, expr, options, len, j, result)

(***************************************************************************)
(* Operator implementations: $floor of the repository, and the functions   *)
(* the factories of this model register.                                   *)
(***************************************************************************)
\* Number(s) is a number: the empty string, or digits only
NumericString(s) == \A i \in 1..Len(s) : s[i] \in Digit

\* the global isNaN(v): Number(v) is NaN
RECURSIVE isNaN(_, _)
isNaN(h, v) ==
    CASE v.t = "num" -> FALSE
      [] v.t = "nan" -> TRUE
      [] v.t = "undef" -> TRUE
      [] v.t = "null" -> FALSE
      [] v.t = "str" -> ~NumericString(v.s)
      [] isArray(h, v) ->
           IF Len(h[v.id].e) = 0 THEN FALSE
           ELSE IF Len(h[v.id].e) = 1
           THEN (IF isNil(h[v.id].e[1]) THEN FALSE ELSE isNaN(h, h[v.id].e[1]))
           ELSE TRUE
      [] OTHER -> TRUE

\* Math.floor(n)
MathFloor(v) == IF v.t = "num" THEN Num(v.n) ELSE NaN

\* $floor once n = r is computed
floorOf(r) ==
    CASE r.st.err # "none" -> r
      [] Ok(r.st) /\ isNil(r.v) -> R(r.st, Null)
      [] Ok(r.st) /\ ~isNil(r.v) /\ ~(isNumber(r.v) \/ isNaN(r.st.h, r.v)) ->
           Throw(r.st, "TypeError")
      [] OTHER -> R(r.st, MathFloor(r.v))

\* $floor(obj, expr, options)
floor(ops, st, obj, expr, options) ==
    floorOf(computeValue(ops, st, obj, expr, NullKey, options))

IF_ == <<"i","f">>

THEN_ == <<"t","h","e","n">>

ELSE_ == <<"e","l","s","e">>

\* the i-th part of [if, then, else], the part named k of { if, then, else }
condPart(expr, i, k) == IF isArrayLit(expr) THEN expr.e[i] ELSE getKey(expr.e, k)

\* the branch the condition c chooses, evaluated against the same document
condBranch(ops, c, obj, expr, options) ==
    IF c.st.err # "none" THEN c
    ELSE computeValue(ops, c.st, obj,
                      IF truthy(c.v) THEN condPart(expr, 2, THEN_)
                      ELSE condPart(expr, 3, ELSE_),
                      NullKey, options)

\* a conditional: expr is [if, then, else] or { if, then, else }
cond(ops, st, obj, expr, options) ==
    IF ~(IF isArrayLit(expr) THEN Len(expr.e) = 3 ELSE isObjectLit(expr))
    THEN Throw(st, "TypeError")
    ELSE condBranch(ops, computeValue(ops, st, obj, condPart(expr, 1, IF_), NullKey, options),
                    obj, expr, options)

\* the second argument evaluated against d, the value of the first
withBody(ops, d, expr, options) ==
    IF d.st.err # "none" THEN d
    ELSE computeValue(ops, d.st, d.v, expr.e[2], NullKey, options)

\* an operator that evaluates its second argument against the document its
\* first argument evaluates to, with the options it was given
with(ops, st, obj, expr, options) ==
    IF ~(isArrayLit(expr) /\ Len(expr.e) = 2)
    THEN Throw(st, "TypeError")
    ELSE withBody(ops, computeValue(ops, st, obj, expr.e[1], NullKey, options),
                  expr, options)

\* the document computed, the documents after it
pushItemsNext(ops, r, collection, expr, options, i, acc) ==
    IF r.st.err # "none" THEN r
    ELSE pushItems(ops, r.st, collection, expr, options, i + 1, Append(acc, r.v))

pushItems(ops, st, collection, expr, options, i, acc) ==
    IF i > Len(st.h[collection.id].e) THEN New(st, "arr", acc)
    ELSE pushItemsNext(ops,
                       computeValue(ops, st, st.h[collection.id].e[i], expr, NullKey, options),
                       collection, expr, options, i, acc)

\* an accumulator: the collection itself when expr is null, else the array
\* of expr evaluated against each document of the collection
push(ops, st, collection, expr, options) ==
    CASE isNil(expr) -> R(st, collection)
      [] ~isNil(expr) /\ ~isArray(st.h, collection) -> Throw(st, "TypeError")
      [] OTHER -> pushItems(ops, st, collection, expr, options, 1, <<>>)

\* numbers in halves
Halves(v) == 2 * v.n + (IF v.half THEN 1 ELSE 0)

FromHalves(x) == [t |-> "num", n |-> x \div 2, half |-> x % 2 = 1]

RECURSIVE SumNumbers(_, _, _)
SumNumbers(vs, i, acc) ==
    IF i > Len(vs) THEN acc
    ELSE IF vs[i].t = "nan" \/ acc.t = "nan" THEN SumNumbers(vs, i + 1, NaN)
    ELSE IF vs[i].t = "num" THEN SumNumbers(vs, i + 1, FromHalves(Halves(acc) + Halves(vs[i])))
    ELSE SumNumbers(vs, i + 1, acc)

\* the sum of the numbers of the array r
sumOf(r) ==
    IF r.st.err # "none" THEN r
    ELSE R(r.st, SumNumbers(r.st.h[r.v.id].e, 1, Num(0)))

\* an accumulator: 0 of no array, length * expr for a number, else the sum
\* of the numbers expr evaluates to over the collection
sum(ops, st, collection, expr, options) ==
    CASE ~isArray(st.h, collection) -> R(st, Num(0))
      [] isArray(st.h, collection) /\ expr.t = "nan" -> R(st, NaN)
      [] isArray(st.h, collection) /\ expr.t = "num" ->
           R(st, FromHalves(Len(st.h[collection.id].e) * Halves(expr)))
      [] OTHER -> sumOf(push(ops, st, collection, expr, options))

\* wrapped[op](...args): fn.apply(newOperators, args)
Invoke(ops, st, impl, a1, a2, options) ==
    CASE impl.fn = "floor" -> floor(ops, st, a1, a2, options)
      [] impl.fn = "cond" -> cond(ops, st, a1, a2, options)
      [] impl.fn = "with" -> with(ops, st, a1, a2, options)
      [] impl.fn = "push" -> push(ops, st, a1, a2, options)
      [] impl.fn = "sum" -> sum(ops, st, a1, a2, options)

(***************************************************************************)
(* Registration inputs.                                                    *)
(***************************************************************************)
\* operator names: two that match the pattern, three that do not
RegNames == { <<"$">>, <<"$","_","Z","9">>,
              <<"a">>, <<"$","-">>, <<"$","$">> }

\* the categories the registrations are made in
RegTypes == {"accumulator", "query"}

RegFns == {"floor", "push"}

RegEntry == [k : RegNames, v : RegFns]

RECURSIVE SeqsUpTo(_, _)
SeqsUpTo(S, n) ==
    IF n = 0 THEN {<<>>}
    ELSE LET shorter == SeqsUpTo(S, n - 1)
         IN  shorter \cup {Append(s, x) : s \in {t \in shorter : Len(t) = n - 1}, x \in S}

RegMappings == {es \in SeqsUpTo(RegEntry, MaxOps) : DistinctKeys(es)}

RegSize(ops) == Cardinality({<<cls, n>> \in OperatorType \X RegNames : has(ops[cls], n)})

(***************************************************************************)
(* Evaluation inputs.                                                      *)
(***************************************************************************)
FLOOR == <<"$","f","l","o","o","r">>

WITHOP == <<"$","w","i","t","h">>

PUSH == <<"$","p","u","s","h">>

SUM == <<"$","s","u","m">>

\* the factories of the evaluation runs; $sum is a name of both categories
Factories ==
    { [cls |-> "expression",
       entries |-> <<KV(COND, "cond"), KV(FLOOR, "floor"), KV(WITHOP, "with"),
                     KV(SUM, "floor")>>],
      [cls |-> "accumulator",
       entries |-> <<KV(PUSH, "push"), KV(SUM, "sum")>>] }

\* field names
ok == <<"o","k">>

a == <<"a">>

sec == <<"s","e","c","r","e","t">>

sub == <<"s","u","b">>

list == <<"l","i","s","t">>

\* '$' + path
Var(path) == Str(<<"$">> \o path)

\* a '.' b
Dot(p, q) == p \o <<".">> \o q

\* the options a call is given: none, an options object, or an options
\* object whose root an ancestor has bound to another document
OptionKinds == {"none", "config", "root"}

RootDoc == Obj(<<KV(ok, Num(0)), KV(a, Num(9))>>)

\* the heap a call starts in: the document first, then the pre-bound root
StartHeap(doc) == Alloc(Alloc(<<>>, doc).h, RootDoc).h

TopDoc == Ref(1)

BoundRoot(doc) == Alloc(Alloc(<<>>, doc).h, RootDoc).v

OptionsFor(kind, doc) ==
    CASE kind = "none" -> NoOptions
      [] kind = "config" -> OptionsOf(Null)
      [] OTHER -> [given |-> TRUE, config |-> createConfig, hasRoot |-> TRUE,
                   root |-> BoundRoot(doc)]

\* entries of a mapping expression, and bounds on what is built of them
MaxEntries == 2

MaxLen == 2

Mappings(pool, n) == {Obj(es) : es \in {x \in SeqsUpTo(pool, n) : DistinctKeys(x)}}

\* documents computeValue is given
CvDocs ==
    { Obj(<<KV(ok, Num(1)), KV(a, NumHalf(2)),
            KV(sub, Obj(<<KV(ok, Num(0)), KV(a, Num(7))>>)),
            KV(list, Arr(<<Obj(<<KV(a, Num(1))>>), Obj(<<KV(a, NumHalf(1))>>)>>))>>),
      Obj(<<KV(ok, Num(0)), KV(a, Str(<<"1","2">>)),
            KV(sub, Obj(<<KV(ok, Num(1)), KV(a, Str(<<"x">>))>>)),
            KV(list, Arr(<<>>))>>) }

CvEntries ==
    { KV(FLOOR, Var(a)),
      KV(SUM, Var(list)),
      KV(SUM, Num(5)),
      KV(PUSH, Var(list)),
      KV(COND, Arr(<<Var(ok), Str(ROOT), Var(Dot(sub, a))>>)),
      KV(WITHOP, Arr(<<Var(sub), Str(ROOT)>>)),
      KV(a, Var(a)),
      KV(sec, Obj(<<KV(FLOOR, Str(<<"1","2">>))>>)),
      KV(sub, Str(ROOT)) }

CvLeaves ==
    { Str(ROOT), Str(Dot(ROOT, Dot(sub, a))), Str(Dot(CURRENT, a)), Str(REMOVE), Str(KEEP),
      Var(a), Var(list), Str(<<"x">>), Num(5), Null,
      Arr(<<Str(ROOT), Var(a)>>) }

CvNested ==
    { Obj(<<KV(WITHOP, Arr(<<Var(sub), Obj(<<KV(FLOOR, Str(Dot(ROOT, a)))>>)>>))>>),
      Obj(<<KV(WITHOP, Arr(<<Var(sub), Arr(<<Str(ROOT), Str(CURRENT)>>)>>))>>),
      Obj(<<KV(sub, Obj(<<KV(a, Num(1)), KV(FLOOR, Var(a))>>))>>),
      Arr(<<Obj(<<KV(a, Str(ROOT))>>), Obj(<<KV(WITHOP, Arr(<<Var(sub), Str(ROOT)>>))>>)>>) }

CvExprs == Mappings(CvEntries, MaxEntries) \cup CvLeaves \cup CvNested

CvOperators == {FLOOR, SUM, PUSH}

\* collections and expressions accumulate is given
AccCollections ==
    { Arr(<<Obj(<<KV(a, Num(1))>>), Obj(<<KV(a, NumHalf(2))>>),
            Obj(<<KV(a, Str(<<"1","2">>))>>)>>),
      Arr(<<Obj(<<KV(a, Num(1))>>)>>) }

GROUP == <<"$","g","r","o","u","p">>

AccFields == {GROUP, PUSH}

AccEntries ==
    { KV(SUM, Var(a)),
      KV(PUSH, Var(a)),
      KV(PUSH, Obj(<<KV(FLOOR, Var(a))>>)),
      KV(a, Obj(<<KV(SUM, Var(a))>>)),
      KV(sub, Num(1)),
      KV(sec, Obj(<<KV(SUM, Num(1)), KV(PUSH, Var(a))>>)) }

AccExprs == Mappings(AccEntries, MaxEntries) \cup {Var(a), Num(1)}

\* the elements of a sequence field: documents, null and a number
RedactElems == { Obj(<<KV(ok, Num(1))>>), Obj(<<KV(ok, Num(0))>>), Null, Num(3) }

RedactSubs ==
    { Obj(<<KV(ok, Num(0)), KV(sec, Str(<<"y">>))>>),
      Obj(<<KV(ok, Num(1)), KV(sec, Str(<<"y">>))>>) }

\* documents redact is given: a flag, a scalar and optionally a nested
\* document
RedactFlat ==
    { Obj(<<KV(ok, Num(f)), KV(sec, Str(<<"x">>))>> \o s) :
        f \in {0, 1}, s \in {<<>>} \cup {<<KV(sub, d)>> : d \in RedactSubs} }

\* documents holding a sequence field
RedactLists ==
    { Obj(<<KV(ok, Num(1)), KV(list, Arr(es)), KV(sec, Str(<<"x">>))>>) :
        es \in SeqsUpTo(RedactElems, MaxLen) }

RedactDeep ==
    { Obj(<<KV(ok, Num(1)),
            KV(sub, Obj(<<KV(ok, Num(1)),
                          KV(sub, Obj(<<KV(ok, Num(0))>>)),
                          KV(list, Arr(<<Obj(<<KV(ok, Num(1)), KV(sub, Obj(<<KV(ok, Num(0))>>))>>),
                                         Obj(<<KV(ok, Num(0))>>)>>))>>)),
            KV(list, Arr(<<Obj(<<KV(ok, Num(1)),
                                 KV(list, Arr(<<Null, Obj(<<KV(ok, Num(0))>>)>>))>>)>>))>>),
      Obj(<<KV(ok, Num(1)),
            KV(sub, Obj(<<KV(ok, Num(1)),
                          KV(sub, Obj(<<KV(ok, Num(1)),
                                        KV(sub, Obj(<<KV(ok, Num(0))>>))>>))>>))>>),
      Obj(<<KV(ok, Num(0)),
            KV(sub, Obj(<<KV(ok, Num(1)), KV(sub, Obj(<<KV(ok, Num(1))>>))>>))>>) }

RedactDocs == RedactFlat \cup RedactLists \cup RedactDeep

CondOf(ifExpr, thenExpr, elseExpr) ==
    Obj(<<KV(COND, Obj(<<KV(IF_, ifExpr), KV(THEN_, thenExpr), KV(ELSE_, elseExpr)>>))>>)

RedactExprs ==
    { CondOf(Var(ok), Str(DESCEND), Str(PRUNE)),
      CondOf(Str(Dot(ROOT, ok)), Str(DESCEND), Str(PRUNE)),
      CondOf(Obj(<<KV(WITHOP, Arr(<<Var(sub), Str(Dot(ROOT, ok))>>))>>),
             Str(DESCEND), Str(PRUNE)),
      CondOf(Var(ok), Str(DESCEND), Null),
      CondOf(Var(ok), Str(DESCEND), Num(5)),
      Obj(<<KV(COND, Arr(<<Var(ok), Str(KEEP), Str(DESCEND)>>))>>),
      Str(KEEP), Str(DESCEND), Str(PRUNE),
      Arr(<<Str(PRUNE)>>),
      Var(sec) }

(***************************************************************************)
(* Actions.                                                                *)
(***************************************************************************)
NoCall == [op |-> "none"]

NoRet == [err |-> "none"]

Init ==
    /\ OPERATORS = InitOperators
    /\ pc = "idle"
    /\ call = NoCall
    /\ ret = NoRet

\* a call of addOperators(cls, () => entries)
AddOperators(cls, entries) ==
    /\ pc = "idle"
    /\ LET r == addOperators(OPERATORS, cls, entries)
       IN  /\ OPERATORS' = r.ops
           /\ ret' = [err |-> r.err, before |-> OPERATORS]
    /\ call' = [op |-> "addOperators", cls |-> cls, entries |-> entries]
    /\ pc' = "done"

\* what a call of the evaluator leaves: the error or the value, the value as
\* a literal, the heap and the log
Outcome(r) ==
    [err |-> r.st.err,
     v |-> r.v,
     val |-> IF Ok(r.st) THEN Snapshot(r.st.h, r.v) ELSE Undef,
     h |-> r.st.h,
     log |-> r.st.log]

\* a call of computeValue(doc, expr, operator, options)
ComputeValue(doc, expr, operator, kind) ==
    /\ pc = "idle"
    /\ ret' = Outcome(computeValue(OPERATORS, StartState(StartHeap(doc)), TopDoc, expr,
                                   operator, OptionsFor(kind, doc)))
    /\ call' = [op |-> "computeValue", doc |-> doc, expr |-> expr,
                operator |-> operator, kind |-> kind]
    /\ pc' = "done"
    /\ UNCHANGED OPERATORS

\* a call of accumulate(collection, field, expr, options)
Accumulate(collection, field, expr, kind) ==
    /\ pc = "idle"
    /\ ret' = Outcome(accumulate(OPERATORS, StartState(StartHeap(collection)), TopDoc,
                                 field, expr, OptionsFor(kind, collection)))
    /\ call' = [op |-> "accumulate", doc |-> collection, expr |-> expr,
                operator |-> field, kind |-> kind]
    /\ pc' = "done"
    /\ UNCHANGED OPERATORS

\* a call of redact(doc, expr, options)
Redact(doc, expr, kind) ==
    /\ pc = "idle"
    /\ ret' = Outcome(redact(OPERATORS, StartState(StartHeap(doc)), TopDoc, expr,
                             OptionsFor(kind, doc)))
    /\ call' = [op |-> "redact", doc |-> doc, expr |-> expr,
                operator |-> NullKey, kind |-> kind]
    /\ pc' = "done"
    /\ UNCHANGED OPERATORS

\* the caller takes the result (or the error) and goes on
Return ==
    /\ pc = "done"
    /\ pc' = "idle"
    /\ call' = NoCall
    /\ ret' = NoRet
    /\ UNCHANGED OPERATORS

Register ==
    /\ RegSize(OPERATORS) < MaxRegistered
    /\ \E cls \in RegTypes, entries \in RegMappings : AddOperators(cls, entries)

NextReg == Register \/ Return

\* the registry alone, under every mapping of the registration inputs
SpecReg == Init /\ [][NextReg]_vars

Install == \E f \in Factories : AddOperators(f.cls, f.entries)

Compute ==
    \E doc \in CvDocs, kind \in OptionKinds :
        \/ \E expr \in CvExprs : ComputeValue(doc, expr, NullKey, kind)
        \/ \E expr \in CvLeaves, operator \in CvOperators :
              ComputeValue(doc, expr, operator, kind)

Group ==
    \E collection \in AccCollections, field \in AccFields, expr \in AccExprs,
       kind \in OptionKinds :
        Accumulate(collection, field, expr, kind)

Prune ==
    \E doc \in RedactDocs, expr \in RedactExprs, kind \in OptionKinds :
        Redact(doc, expr, kind)

Next == Install \/ Compute \/ Group \/ Prune \/ Return

\* the evaluator, over the registries the factories build
Spec == Init /\ [][Next]_vars

(***************************************************************************)
(* The registry's claims, checked under SpecReg.                           *)
(***************************************************************************)
IsAdd == pc = "done" /\ call.op = "addOperators"

NamesOf(entries) == {entries[i].k : i \in 1..Len(entries)}

Resolves(ops, cls, n) == getOperator(ops, cls, n) # NullFn

\* the place of the first name of entries that resolved in cls
FirstResolved(ops, cls, entries) ==
    CHOOSE i \in 1..Len(entries) :
        /\ Resolves(ops, cls, entries[i].k)
        /\ \A j \in 1..(i - 1) : ~Resolves(ops, cls, entries[j].k)

\* every (category, name) that resolved before the call resolves to the same
\* implementation after it
FirstRegistrationStays ==
    \A cls \in OperatorType : \A n \in DOMAIN ret.before[cls] :
        getOperator(OPERATORS, cls, n) = getOperator(ret.before, cls, n)

\* C1 as stated: once (category, name) resolves, every later addOperators
\* call for that category whose mapping contains the name fails with
\* DuplicateOperator, and getOperator keeps returning the first registration.
C1_DuplicateAlwaysReported ==
    IsAdd =>
        /\ FirstRegistrationStays
        /\ \A n \in NamesOf(call.entries) :
              Resolves(ret.before, call.cls, n) => ret.err = "DuplicateOperator"

\* C1 as amended: such a call fails and the first registration stays; the
\* error is DuplicateOperator unless a name that does not match the pattern
\* comes before the first registered name of the mapping, and then it is
\* InvalidOperatorName.
C1_DuplicateFails ==
    IsAdd =>
        /\ FirstRegistrationStays
        /\ (\E n \in NamesOf(call.entries) : Resolves(ret.before, call.cls, n)) =>
              LET i == FirstResolved(ret.before, call.cls, call.entries)
              IN  ret.err = IF \E j \in 1..(i - 1) : ~NameRegexTest(call.entries[j].k)
                            THEN "InvalidOperatorName"
                            ELSE "DuplicateOperator"

\* a second registration of a name, with another implementation, reported
\* as a duplicate
C1_Witness ==
    /\ IsAdd
    /\ ret.err = "DuplicateOperator"
    /\ \E i \in 1..Len(call.entries) :
          /\ Resolves(ret.before, call.cls, call.entries[i].k)
          /\ getOperator(ret.before, call.cls, call.entries[i].k).fn # call.entries[i].v

\* a name of the call's mapping that makes the call fail
BadName(n) == ~NameRegexTest(n) \/ Resolves(ret.before, call.cls, n)

\* C8: addOperators is all-or-nothing.  When a name of the mapping fails the
\* pattern or already resolves in the category, the call fails with
\* InvalidOperatorName or DuplicateOperator and the registry is what it was,
\* the valid new names of the mapping unregistered; a mapping of valid new
\* names is registered whole; every name that resolves matches the pattern.
C8_AllOrNothing ==
    /\ \A cls \in OperatorType : \A n \in DOMAIN OPERATORS[cls] : NameRegexTest(n)
    /\ IsAdd =>
          IF \E n \in NamesOf(call.entries) : BadName(n)
          THEN /\ ret.err \in {"InvalidOperatorName", "DuplicateOperator"}
               /\ ret.err = "InvalidOperatorName" =>
                     \E n \in NamesOf(call.entries) : ~NameRegexTest(n)
               /\ ret.err = "DuplicateOperator" =>
                     \E n \in NamesOf(call.entries) : Resolves(ret.before, call.cls, n)
               /\ OPERATORS = ret.before
          ELSE /\ ret.err = "none"
               /\ \A n \in NamesOf(call.entries) : Resolves(OPERATORS, call.cls, n)

\* a failed call whose mapping starts with a valid, new name
C8_Witness ==
    /\ IsAdd
    /\ Len(call.entries) = 2
    /\ ~BadName(call.entries[1].k)
    /\ BadName(call.entries[2].k)
    /\ ret.err # "none"
    /\ ~Resolves(OPERATORS, call.cls, call.entries[1].k)
    /\ RegSize(ret.before) >= 1

(***************************************************************************)
(* The evaluator's claims, checked under Spec.                             *)
(***************************************************************************)
IsCall(op) == pc = "done" /\ call.op = op

\* the heap and the options the call started with
H0 == StartHeap(call.doc)

Opts0 == OptionsFor(call.kind, call.doc)

St0 == StartState(H0)

IsRootEvent(e) == e.ev = "sysvar" /\ e.name = ROOT

\* C2 as stated: in a top-level computeValue(doc, expr, null, options) with
\* no root pre-bound, every evaluation of '$$ROOT', at any depth and whatever
\* current document an operator passes, returns the top-level doc.
C2_RootIsTopLevelDoc ==
    (IsCall("computeValue") /\ call.operator = NullKey /\ call.kind # "root") =>
        \A i \in 1..Len(ret.log) : IsRootEvent(ret.log[i]) => ret.log[i].v = TopDoc

\* C7: computeValue with an operator name.  A registered EXPRESSION operator
\* is invoked first of all, with the document and the raw expr, and its
\* outcome is the call's, also when the name is an ACCUMULATOR too.  A name
\* that is only an ACCUMULATOR has expr evaluated first: an error of that
\* evaluation is the call's; a value that is no sequence is a TypeError and
\* nothing more is invoked; else the accumulator is invoked last, with the
\* sequence and a null expr, and its result returned.
C7_DispatchOrder ==
    (IsCall("computeValue") /\ call.operator # NullKey) =>
        LET impE == getOperator(OPERATORS, "expression", call.operator)
            impA == getOperator(OPERATORS, "accumulator", call.operator)
            opts == defaulted(Opts0)
            r0 == computeValue(OPERATORS, St0, TopDoc, call.expr, NullKey, opts)
        IN  IF impE # NullFn
            THEN LET ev == [ev |-> "op", cls |-> "expression", name |-> call.operator,
                            obj |-> TopDoc, expr |-> call.expr]
                 IN  /\ Len(ret.log) >= 1 /\ ret.log[1] = ev
                     /\ ret = Outcome(Invoke(OPERATORS, Logged(St0, ev), impE, TopDoc,
                                             call.expr, opts))
            ELSE IF impA # NullFn
            THEN IF ~Ok(r0.st)
                 THEN ret.err = r0.st.err /\ ret.log = r0.st.log
                 ELSE IF ~isArray(r0.st.h, r0.v)
                 THEN ret.err = "TypeError" /\ ret.log = r0.st.log
                 ELSE LET ev == [ev |-> "op", cls |-> "accumulator", name |-> call.operator,
                                 obj |-> r0.v, expr |-> Null]
                      IN  /\ ret.log = Append(r0.st.log, ev)
                          /\ ret = Outcome(Invoke(OPERATORS, Logged(r0.st, ev), impA, r0.v,
                                                  Null, opts))
            ELSE \A i \in 1..Len(ret.log) : ret.log[i].ev # "op"

\* $sum is registered in both categories and given a list: the EXPRESSION
\* implementation answers (the floor of a list, NaN), not the accumulator
C7_Witness ==
    /\ IsCall("computeValue")
    /\ call.operator = SUM
    /\ Resolves(OPERATORS, "expression", SUM)
    /\ Resolves(OPERATORS, "accumulator", SUM)
    /\ call.expr = Var(list)
    /\ ret.err = "none"
    /\ ret.val = NaN

\* the entries of a mapping expression, and the places of its operator keys
IsMappingCall(op) == IsCall(op) /\ isObjectLit(call.expr) /\ Len(call.expr.e) >= 1

OperatorPlaces == {i \in 1..Len(call.expr.e) : isOperatorKey(OPERATORS, call.expr.e[i].k)}

Least(S) == CHOOSE i \in S : \A j \in S : i <= j

\* the error of evaluating entry i of the call's mapping on its own
EntryError(i) ==
    computeValue(OPERATORS, St0, TopDoc, call.expr.e[i].v, call.expr.e[i].k,
                 defaulted(Opts0)).st.err

\* the result of a mapping of one entry, an operator: the operator's value
C3_OneEntryCollapses ==
    Len(call.expr.e) = 1 =>
        LET r == computeValue(OPERATORS, St0, TopDoc, call.expr.e[1].v, call.expr.e[1].k,
                              defaulted(Opts0))
        IN  ret.err = r.st.err /\ ret.v = r.v /\ ret.h = r.st.h

\* C3 as stated: a mapping expression with an operator key and more than
\* one entry fails with InvalidExpression, wherever the key is and whatever
\* the other entries are; with one entry the result is the operator's value.
C3_AlwaysInvalidExpression ==
    (IsMappingCall("computeValue") /\ call.operator = NullKey /\ OperatorPlaces # {}) =>
        /\ Len(call.expr.e) > 1 => ret.err = "InvalidExpression"
        /\ C3_OneEntryCollapses

\* C3 as amended: such a mapping with more than one entry fails; the error
\* is InvalidExpression when the entries up to and including the first
\* operator key evaluate without error, and else the error of the first of
\* them that fails (the operator is invoked before the entries are counted).
C3_SingleOperatorRule ==
    (IsMappingCall("computeValue") /\ call.operator = NullKey /\ OperatorPlaces # {}) =>
        /\ Len(call.expr.e) > 1 =>
              LET failing == {i \in 1..Least(OperatorPlaces) : EntryError(i) # "none"}
              IN  ret.err = IF failing = {} THEN "InvalidExpression"
                            ELSE EntryError(Least(failing))
        /\ C3_OneEntryCollapses

\* an operator key after a plain entry, both evaluating: InvalidExpression
C3_Witness ==
    /\ IsMappingCall("computeValue")
    /\ call.operator = NullKey
    /\ Len(call.expr.e) = 2
    /\ OperatorPlaces = {2}
    /\ EntryError(1) = "none" /\ EntryError(2) = "none"
    /\ ret.err = "InvalidExpression"

(***************************************************************************)
(* accumulate: the single-operator rule of a group mapping.                *)
(***************************************************************************)
\* accumulate with a field that is no accumulator and a mapping expr
IsGroupCall ==
    /\ IsCall("accumulate")
    /\ ~Resolves(OPERATORS, "accumulator", call.operator)
    /\ isObjectLit(call.expr)

AccumulatorPlaces ==
    {i \in 1..Len(call.expr.e) : Resolves(OPERATORS, "accumulator", call.expr.e[i].k)}

\* accumulate(collection, key, expr[key], options) of entry i on its own
GroupEntry(i) ==
    accumulate(OPERATORS, St0, TopDoc, call.expr.e[i].k, call.expr.e[i].v, Opts0)

\* the result of a mapping of one entry, an accumulator: the accumulator's value
C4_OneEntryCollapses ==
    (AccumulatorPlaces # {} /\ Len(call.expr.e) = 1) =>
        /\ ret.err = GroupEntry(1).st.err
        /\ ret.v = GroupEntry(1).v
        /\ ret.h = GroupEntry(1).st.h

\* no key an accumulator: a mapping of the keys of expr, each holding
\* accumulate(collection, key, expr[key], options)
C4_PlainMapping ==
    (AccumulatorPlaces = {} /\ ret.err = "none") =>
        /\ isObject(ret.h, ret.v)
        /\ keys(ret.h[ret.v.id].e) = keys(call.expr.e)
        /\ \A i \in 1..Len(call.expr.e) :
              Snapshot(ret.h, ret.h[ret.v.id].e[i].v)
                  = Snapshot(GroupEntry(i).st.h, GroupEntry(i).v)

\* C4 as stated: a group mapping with an accumulator key and more than one
\* entry fails with InvalidGroupExpression; with that one entry the result
\* is the accumulator's value; with no accumulator key the result is a
\* mapping of the keys of expr, each holding its accumulate.
C4_AlwaysInvalidGroupExpression ==
    IsGroupCall =>
        /\ (AccumulatorPlaces # {} /\ Len(call.expr.e) > 1) =>
              ret.err = "InvalidGroupExpression"
        /\ C4_OneEntryCollapses
        /\ C4_PlainMapping

\* C4 as amended: such a mapping with more than one entry fails; the error
\* is InvalidGroupExpression when the entries up to and including the first
\* accumulator key evaluate without error, and else the error of the first
\* of them that fails (the accumulator is invoked before the entries are
\* counted).  The rest is as stated.
C4_SingleOperatorRule ==
    IsGroupCall =>
        /\ (AccumulatorPlaces # {} /\ Len(call.expr.e) > 1) =>
              LET failing == {i \in 1..Least(AccumulatorPlaces) :
                                 GroupEntry(i).st.err # "none"}
              IN  ret.err = IF failing = {} THEN "InvalidGroupExpression"
                            ELSE GroupEntry(Least(failing)).st.err
        /\ C4_OneEntryCollapses
        /\ C4_PlainMapping

\* an accumulator key after a plain entry, both evaluating:
\* InvalidGroupExpression
C4_Witness ==
    /\ IsGroupCall
    /\ Len(call.expr.e) = 2
    /\ AccumulatorPlaces = {2}
    /\ GroupEntry(1).st.err = "none" /\ GroupEntry(2).st.err = "none"
    /\ ret.err = "InvalidGroupExpression"

(***************************************************************************)
(* redact.                                                                 *)
(***************************************************************************)
\* the options redact hands the handler, and the handler a nested redact
NestedOpts == assignRoot(TopDoc, IF Opts0.given THEN defaulted(Opts0) ELSE Opts0)

\* what evaluating the call's expr against the document yields
Yield0 == computeValue(OPERATORS, St0, TopDoc, call.expr, NullKey, Opts0)

HasCond == isObjectLit(call.expr) /\ hasKey(call.expr.e, COND)

\* the fields of the document as the call was given it, and as it left it
Fields0 == H0[1].e

FieldsAfter == ret.h[1].e

\* the document holds field k, with the value it had
Untouched(k) ==
    /\ hasKey(FieldsAfter, k)
    /\ Snapshot(ret.h, getKey(FieldsAfter, k)) = Snapshot(H0, getKey(Fields0, k))

\* redact descended into the fields of the document
Descended ==
    /\ IsCall("redact")
    /\ ret.err = "none"
    /\ Yield0.st.err = "none"
    /\ Yield0.v = Str(DESCEND)
    /\ HasCond

\* what evaluating expr against v, a value of a field, yields
YieldOf(v) == computeValue(OPERATORS, St0, v, call.expr, NullKey, NestedOpts).v

\* redact(v, expr, options) of a nested document v on its own
NestedRedact(v) == redact(OPERATORS, St0, v, call.expr, NestedOpts)

\* C5 as stated: redact removes from the document every field for which
\* evaluating expr against the field yields '$$PRUNE' and leaves every
\* other field untouched.
C5_PrunesEveryField ==
    (IsCall("redact") /\ ret.err = "none") =>
        \A i \in 1..Len(Fields0) :
            IF YieldOf(Fields0[i].v) = Str(PRUNE)
            THEN ~hasKey(FieldsAfter, Fields0[i].k)
            ELSE Untouched(Fields0[i].k)

\* C5 as amended: only when expr, evaluated against the document, yields
\* '$$DESCEND' and has a '$cond' entry are fields removed: then every field
\* holding a nested document against which expr yields '$$PRUNE' is removed,
\* and every field holding a scalar is left untouched, whatever expr yields
\* against it.  When expr yields '$$PRUNE' against the document itself, the
\* result is absent and the document keeps every field.
C5_PrunesNestedDocuments ==
    /\ Descended =>
          \A i \in 1..Len(Fields0) :
              /\ (isObject(H0, Fields0[i].v) /\ YieldOf(Fields0[i].v) = Str(PRUNE)) =>
                     ~hasKey(FieldsAfter, Fields0[i].k)
              /\ ~isObjectLike(H0, Fields0[i].v) => Untouched(Fields0[i].k)
    /\ (IsCall("redact") /\ ret.err = "none" /\ Yield0.v = Str(PRUNE)) =>
          /\ ret.v = Undef
          /\ \A i \in 1..Len(Fields0) : Untouched(Fields0[i].k)

\* a nested document is pruned from a document that keeps its scalar
\* 'secret', though expr yields '$$PRUNE' against no field but the nested one
C5_Witness ==
    /\ Descended
    /\ hasKey(Fields0, sub) /\ ~hasKey(FieldsAfter, sub)
    /\ YieldOf(getKey(Fields0, sub)) = Str(PRUNE)
    /\ Untouched(sec)

\* C6: when expr yields '$$KEEP' against the document, or '$$DESCEND' while
\* it has no '$cond' entry, redact returns the same document, no cell of the
\* heap is changed, and redact is entered once (no recursive call).
C6_KeepLeavesUnchanged ==
    (/\ IsCall("redact")
     /\ Yield0.st.err = "none"
     /\ \/ Yield0.v = Str(KEEP)
        \/ Yield0.v = Str(DESCEND) /\ ~HasCond) =>
        /\ ret.err = "none"
        /\ ret.v = TopDoc
        /\ \A i \in 1..Len(H0) : ret.h[i] = H0[i]
        /\ Cardinality({i \in 1..Len(ret.log) : ret.log[i].ev = "redact"}) = 1

\* '$$DESCEND' without '$cond' on a document that holds a nested document
\* and a list
C6_Witness ==
    /\ IsCall("redact")
    /\ Yield0.v = Str(DESCEND) /\ ~HasCond
    /\ hasKey(Fields0, sub) /\ hasKey(Fields0, list)
    /\ ret.v = TopDoc

\* the literal a nested redact of v returns, on its own
RedactedLit(v) == Snapshot(NestedRedact(v).st.h, NestedRedact(v).v)

\* the elements of the sequence v as the claim words them: an object-like
\* element by its redact, dropped when that is absent; any other kept
ItemsAsStated(v) ==
    SelectSeq([j \in 1..Len(H0[v.id].e) |->
                 IF isObjectLike(H0, H0[v.id].e[j])
                 THEN [keep |-> RedactedLit(H0[v.id].e[j]) # Undef,
                       x |-> RedactedLit(H0[v.id].e[j])]
                 ELSE [keep |-> TRUE, x |-> H0[v.id].e[j]]],
              LAMBDA it : it.keep)

\* the elements as the code leaves them: a document by its redact; what is
\* then null or absent is dropped, a null element too
ItemsKept(v) ==
    SelectSeq([j \in 1..Len(H0[v.id].e) |->
                 IF isObject(H0, H0[v.id].e[j])
                 THEN [keep |-> ~isNil(RedactedLit(H0[v.id].e[j])),
                       x |-> RedactedLit(H0[v.id].e[j])]
                 ELSE [keep |-> ~isNil(H0[v.id].e[j]), x |-> H0[v.id].e[j]]],
              LAMBDA it : it.keep)

\* field k holds a new sequence of the literals of items
HoldsNewSequence(k, items) ==
    /\ hasKey(FieldsAfter, k)
    /\ isArray(ret.h, getKey(FieldsAfter, k))
    /\ getKey(FieldsAfter, k).id > Len(H0)
    /\ Snapshot(ret.h, getKey(FieldsAfter, k)) = Arr([j \in 1..Len(items) |-> items[j].x])

\* C9 as stated: under '$$DESCEND' with '$cond', a field holding a sequence
\* is overwritten with a new sequence of the redacted object-like elements,
\* those redacted to absent dropped, every other element kept; a field
\* holding a nested document is deleted when its redact is absent and
\* overwritten with that result otherwise; scalar fields are untouched.
C9_DescendAsStated ==
    Descended =>
        \A i \in 1..Len(Fields0) :
            LET k == Fields0[i].k
                v == Fields0[i].v
            IN  CASE isArray(H0, v) -> HoldsNewSequence(k, ItemsAsStated(v))
                  [] isObject(H0, v) ->
                       IF RedactedLit(v) = Undef THEN ~hasKey(FieldsAfter, k)
                       ELSE /\ hasKey(FieldsAfter, k)
                            /\ Snapshot(ret.h, getKey(FieldsAfter, k)) = RedactedLit(v)
                  [] OTHER -> Untouched(k)

\* C9 as amended: the elements redacted are the documents among them; an
\* element is dropped when, redacted or not, it is null or absent, so the
\* null elements of the sequence are dropped too; a field holding a nested
\* document is deleted when its redact is null or absent.  The rest is as
\* stated.
C9_DescendFields ==
    Descended =>
        \A i \in 1..Len(Fields0) :
            LET k == Fields0[i].k
                v == Fields0[i].v
            IN  CASE isArray(H0, v) -> HoldsNewSequence(k, ItemsKept(v))
                  [] isObject(H0, v) ->
                       IF isNil(RedactedLit(v)) THEN ~hasKey(FieldsAfter, k)
                       ELSE /\ hasKey(FieldsAfter, k)
                            /\ Snapshot(ret.h, getKey(FieldsAfter, k)) = RedactedLit(v)
                  [] OTHER -> Untouched(k)

\* a list of a kept document, a pruned one and a number: the pruned one is
\* dropped, the others stay in order
C9_Witness ==
    /\ Descended
    /\ hasKey(Fields0, list)
    /\ Len(H0[getKey(Fields0, list).id].e) = 2
    /\ Len(ItemsKept(getKey(Fields0, list))) = 1
    /\ \E j \in 1..2 : /\ isObject(H0, H0[getKey(Fields0, list).id].e[j])
                       /\ RedactedLit(H0[getKey(Fields0, list).id].e[j]) = Undef
    /\ HoldsNewSequence(list, ItemsKept(getKey(Fields0, list)))

\* the places of the log where redact is entered
RedactPlaces == {i \in 1..Len(ret.log) : ret.log[i].ev = "redact"}

\* place i of the log is within the redact of a nested document or element
IsNested(i) == \E j \in RedactPlaces : j < i /\ \E l \in RedactPlaces : l < j

\* C10: in a top-level redact with no root pre-bound, every handler of a
\* redact variable sees the top-level document as root, and so does every
\* '$$ROOT' evaluated while a nested document or an element is redacted.
C10_NestedRootIsTopLevelDoc ==
    (IsCall("redact") /\ call.kind # "root") =>
        \A i \in 1..Len(ret.log) :
            /\ ret.log[i].ev = "handler" => ret.log[i].root = TopDoc
            /\ (IsRootEvent(ret.log[i]) /\ IsNested(i)) => ret.log[i].v = TopDoc

\* '$$ROOT' is evaluated, and a handler invoked, for a nested document
C10_Witness ==
    /\ IsCall("redact") /\ call.kind # "root"
    /\ \E i \in 1..Len(ret.log) :
          /\ IsRootEvent(ret.log[i])
          /\ ret.log[i].obj # TopDoc
          /\ \E j \in RedactPlaces : j < i /\ ret.log[j].obj # TopDoc
          /\ ret.log[i].v = TopDoc
    /\ \E i \in 1..Len(ret.log) :
          ret.log[i].ev = "handler" /\ ret.log[i].obj # TopDoc

====
